---- MODULE Spec2Model ----
(***************************************************************************)
(* KanbanView: the read-only query layer over the Things 3 database        *)
(* (things3/things3.py) and the Flask API wrapped around it                *)
(* (things3/things3_api.py).                                               *)
(*                                                                         *)
(* The SQLite store is modelled as four tables of rows.  A cell is either  *)
(* NULL (the empty tuple) or V(x) (a one-element tuple), so that SQL's     *)
(* three-valued logic, LEFT OUTER JOIN null rows and "IS NULL" tests are   *)
(* computed as SQLite computes them.  SQL truth values are V(1), V(0) and  *)
(* NULL; a WHERE clause keeps a row iff its value is V(1).                 *)
(***************************************************************************)
EXTENDS Integers, Sequences, FiniteSets, TLC

VARIABLES
    TMTask,      \* rows of table TMTask (tasks, projects and headings)
    TMArea,      \* rows of table TMArea
    TMTag,       \* rows of table TMTag
    TMTaskTag,   \* rows of table TMTaskTag (tasks, tags)
    database,    \* "ok": sqlite can open and read the file; "unreadable": it cannot
    filter,      \* Things3.filter: the scope text spliced into get_rows
    IS_TASK,     \* Things3.IS_TASK: the type value "is a task" compares against
    anonymize,   \* Things3.anonymize: scramble title and context of results
    response,    \* what the last handler gave back to its caller
    exit,        \* the SystemExit raised so far, if any
    threads      \* request threads of the werkzeug server (threaded=True)

vars == <<TMTask, TMArea, TMTag, TMTaskTag, database, filter, IS_TASK,
          anonymize, response, exit, threads>>

store == <<TMTask, TMArea, TMTag, TMTaskTag, database>>

-----------------------------------------------------------------------------
(* SQL values and three-valued logic                                       *)

NULL == <<>>
V(x) == <<x>>
Val(c) == c[1]

SqlTrue == V(1)
SqlFalse == V(0)

Bool(b) == IF b THEN SqlTrue ELSE SqlFalse

\* a = b
SqlEq(a, b) == IF a = NULL \/ b = NULL THEN NULL ELSE Bool(Val(a) = Val(b))

\* a <= b (integers)
SqlLe(a, b) == IF a = NULL \/ b = NULL THEN NULL ELSE Bool(Val(a) <= Val(b))

\* a IS NULL, a IS NOT NULL: never NULL themselves
SqlIsNull(a) == Bool(a = NULL)
SqlIsNotNull(a) == Bool(a # NULL)

\* a AND b
SqlAnd(a, b) ==
    IF a = SqlFalse \/ b = SqlFalse THEN SqlFalse
    ELSE IF a = NULL \/ b = NULL THEN NULL
    ELSE SqlTrue

\* a OR b
SqlOr(a, b) ==
    IF a = SqlTrue \/ b = SqlTrue THEN SqlTrue
    ELSE IF a = NULL \/ b = NULL THEN NULL
    ELSE SqlFalse

\* c1 AND c2 AND ... over a tuple of conditions
RECURSIVE SqlAll(_)
SqlAll(cs) == IF cs = <<>> THEN SqlTrue ELSE SqlAnd(Head(cs), SqlAll(Tail(cs)))

\* WHERE keeps a row iff the condition is true (not false, not NULL)
Holds(c) == c = SqlTrue

Range(s) == {s[i] : i \in DOMAIN s}

-----------------------------------------------------------------------------
(* Program constants of class Things3                                      *)

MODE_TASK == 0
MODE_PROJECT == 1
TYPE_HEADING == 2
START_INBOX == 0
START_ANYTIME == 1
START_SOMEDAY == 2
STATUS_OPEN == 0
STATUS_CANCELLED == 2
STATUS_DONE == 3
EXIT_CODE == 2
days == 365

\* A text (a title, a tag name) is the tuple of its characters
tag_waiting == <<"W", "a", "i", "t", "i", "n", "g">>
tag_mit == <<"M", "I", "T">>
tag_cleanup == <<"C", "l", "e", "a", "n", "u", "p">>

\* strftime('%s', 'now') and the length of a day, in seconds
SecondsPerDay == 86400
NOW == 400 * SecondsPerDay + 3600

\* date(ts, "unixepoch"): the calendar day of a timestamp, as a day number
Date(ts) == IF ts = NULL THEN NULL ELSE V(Val(ts) \div SecondsPerDay)

-----------------------------------------------------------------------------
(* Base predicates over one TMTask row (the f-string fragments)            *)

IS_INBOX(r) == SqlEq(r.start, V(START_INBOX))
IS_ANYTIME(r) == SqlEq(r.start, V(START_ANYTIME))
IS_SOMEDAY(r) == SqlEq(r.start, V(START_SOMEDAY))
IS_SCHEDULED(r) == SqlIsNotNull(r.startDate)
IS_NOT_SCHEDULED(r) == SqlIsNull(r.startDate)
IS_DUE(r) == SqlIsNotNull(r.dueDate)
IS_NOT_DUE(r) == SqlIsNull(r.dueDate)
IS_RECURRING(r) == SqlIsNotNull(r.recurrenceRule)
IS_NOT_RECURRING(r) == SqlIsNull(r.recurrenceRule)
IS_PROJECT(r) == SqlEq(r.type, V(MODE_PROJECT))
IS_HEADING(r) == SqlEq(r.type, V(TYPE_HEADING))
IS_TRASHED(r) == SqlEq(r.trashed, V(1))
IS_NOT_TRASHED(r) == SqlEq(r.trashed, V(0))
IS_OPEN(r) == SqlEq(r.status, V(STATUS_OPEN))
IS_CANCELLED(r) == SqlEq(r.status, V(STATUS_CANCELLED))
IS_DONE(r) == SqlEq(r.status, V(STATUS_DONE))
RECURRING_IS_NOT_PAUSED(r) == SqlEq(r.instanceCreationPaused, V(0))
RECURRING_HAS_NEXT_STARTDATE(r) == SqlIsNotNull(r.nextInstanceStartDate)

\* TASK.{self.IS_TASK} with the mode value mode read from self.IS_TASK
IsTask(r, mode) == SqlEq(r.type, V(mode))

-----------------------------------------------------------------------------
(* Tables and joins                                                        *)

TaskColumns == {"uuid", "title", "type", "status", "trashed", "start",
                "startDate", "dueDate", "stopDate", "creationDate",
                "userModificationDate", "todayIndex", "recurrenceRule",
                "instanceCreationPaused", "nextInstanceStartDate",
                "project", "area", "actionGroup"}
AreaColumns == {"uuid", "title"}
TagColumns == {"uuid", "title"}
TaskTagColumns == {"tasks", "tags"}

\* the all-NULL row a LEFT OUTER JOIN supplies when nothing matches
NullRow(columns) == [c \in columns |-> NULL]

\* LEFT OUTER JOIN table ON key = table.column, for one left-hand row
LeftJoin(table, column, key, columns) ==
    LET matches == {r \in table : Holds(SqlEq(key, r[column]))}
    IN  IF matches = {} THEN {NullRow(columns)} ELSE matches

\* the FROM clause of get_rows (and of get_minutes_today): every TMTask row
\* joined to its project, area, heading, the heading's project and its tags
JoinedTo(t) ==
    LET projects == LeftJoin(TMTask, "uuid", t.project, TaskColumns)
        areas == LeftJoin(TMArea, "uuid", t.area, AreaColumns)
        headings == LeftJoin(TMTask, "uuid", t.actionGroup, TaskColumns)
        links == LeftJoin(TMTaskTag, "tasks", t.uuid, TaskTagColumns)
    IN  UNION {
          UNION {
            { [TASK |-> t, PROJECT |-> p, AREA |-> a, HEADING |-> h,
               HEADPROJ |-> hp, TAGS |-> l, TAG |-> g]
              : p \in projects, a \in areas,
                hp \in LeftJoin(TMTask, "uuid", h.project, TaskColumns),
                g \in LeftJoin(TMTag, "uuid", l.tags, TagColumns) }
            : l \in links }
          : h \in headings }

Joined == UNION {JoinedTo(t) : t \in TMTask}

\* the count without its trash check
OpenChildren_CountsTrashed(t) ==
    Cardinality({c \in TMTask :
        /\ c.uuid # NULL
        /\ Holds(SqlAll(<<SqlEq(c.project, t.uuid), IS_OPEN(c)>>))})

\* (SELECT COUNT(uuid) FROM TMTask AS PROJECT_TASK WHERE
\*    PROJECT_TASK.project = TASK.uuid AND not trashed AND open)
OpenChildren(t) ==
    Cardinality({c \in TMTask :
        /\ c.uuid # NULL
        /\ Holds(SqlAll(<<SqlEq(c.project, t.uuid),
                          IS_NOT_TRASHED(c),
                          IS_OPEN(c)>>))})

-----------------------------------------------------------------------------
(* ORDER BY                                                                *)

\* the characters titles are written in, in collation (code point) order
Alphabet == <<"0", "1", "2", "3", "4", "5", "6", "7", "8", "9", "A", "C", "H", "I", "M", "P", "T", "W",
              "a", "e", "g", "i", "k", "l", "m", "n", "o", "p", "r", "t", "u">>
CharRank(ch) == CHOOSE i \in DOMAIN Alphabet : Alphabet[i] = ch

\* -1, 0, 1: text x sorts before, with, after text y
RECURSIVE CmpText(_, _)
CmpText(x, y) ==
    IF x = <<>> THEN (IF y = <<>> THEN 0 ELSE -1)
    ELSE IF y = <<>> THEN 1
    ELSE IF CharRank(Head(x)) < CharRank(Head(y)) THEN -1
    ELSE IF CharRank(Head(x)) > CharRank(Head(y)) THEN 1
    ELSE CmpText(Tail(x), Tail(y))

\* -1, 0, 1 for two cells of one column; NULL sorts before every value
CmpCell(a, b, text) ==
    IF a = b THEN 0
    ELSE IF a = NULL THEN -1
    ELSE IF b = NULL THEN 1
    ELSE IF text THEN CmpText(Val(a), Val(b))
    ELSE IF Val(a) < Val(b) THEN -1 ELSE 1

\* an ORDER BY term: a column, its direction, and whether it is text
Asc(col) == [col |-> col, desc |-> FALSE, text |-> FALSE]
Desc(col) == [col |-> col, desc |-> TRUE, text |-> FALSE]
AscText(col) == [col |-> col, desc |-> FALSE, text |-> TRUE]

\* -1, 0, 1: row x sorts before, with, after row y under the ORDER BY terms
RECURSIVE CmpRows(_, _, _)
CmpRows(x, y, terms) ==
    IF terms = <<>> THEN 0
    ELSE LET t == Head(terms)
             c == CmpCell(x[t.col], y[t.col], t.text)
             d == IF t.desc THEN 0 - c ELSE c
         IN  IF d # 0 THEN d ELSE CmpRows(x, y, Tail(terms))

RECURSIVE Perms(_)
Perms(S) ==
    IF S = {} THEN {<<>>}
    ELSE UNION {{<<x>> \o p : p \in Perms(S \ {x})} : x \in S}

\* every sequence a query may return for the result rows S under ORDER BY
\* terms over Key[row]: rows that tie (or no ORDER BY) come in any order
Orderings(S, Key, terms) ==
    {s \in Perms(S) :
        \A i, j \in DOMAIN s :
            i < j => CmpRows(Key[s[i]], Key[s[j]], terms) <= 0}

\* the SELECT list F applied to each row of a result
MapSeq(s, F) == [i \in DOMAIN s |-> F[s[i]]]

-----------------------------------------------------------------------------
(* The scope filter (Things3.filter) and get_rows                          *)

\* filter = "": nothing is spliced into the WHERE clause
NoFilter == [kind |-> "", uuid |-> ""]
\* filter = "TASK.area = '{uuid}' AND"
AreaFilter(uuid) == [kind |-> "area", uuid |-> uuid]
\* filter = "(TASK.project = '{uuid}' OR HEADING.project = '{uuid}') AND"
ProjectFilter(uuid) == [kind |-> "project", uuid |-> uuid]

\* "if self.filter:" - a non-empty string is true
FilterIsSet(flt) == flt.kind # ""

\* an area filter that is not spliced in
FilterCond_AreaDropped(flt, j) ==
    IF flt.kind = "project"
    THEN SqlOr(SqlEq(j.TASK.project, V(flt.uuid)),
               SqlEq(j.HEADING.project, V(flt.uuid)))
    ELSE SqlTrue

\* the value of the spliced filter text on one joined row
FilterCond(flt, j) ==
    IF flt.kind = "area" THEN SqlEq(j.TASK.area, V(flt.uuid))
    ELSE IF flt.kind = "project"
         THEN SqlOr(SqlEq(j.TASK.project, V(flt.uuid)),
                    SqlEq(j.HEADING.project, V(flt.uuid)))
         ELSE SqlTrue

\* the CASE expressions of the SELECT list
\* the CASE with the project tested before the area
Context_ProjectFirst(j) ==
    IF j.PROJECT.title # NULL THEN j.PROJECT.title
    ELSE IF j.AREA.title # NULL THEN j.AREA.title
    ELSE IF j.HEADING.title # NULL THEN j.HEADING.title
    ELSE NULL

Context(j) ==
    IF j.AREA.title # NULL THEN j.AREA.title
    ELSE IF j.PROJECT.title # NULL THEN j.PROJECT.title
    ELSE IF j.HEADING.title # NULL THEN j.HEADING.title
    ELSE NULL

ContextUuid(j) ==
    IF j.AREA.uuid # NULL THEN j.AREA.uuid
    ELSE IF j.PROJECT.uuid # NULL THEN j.PROJECT.uuid
    ELSE NULL

Due(t) == IF t.recurrenceRule = NULL THEN Date(t.dueDate) ELSE NULL

TypeName(t) ==
    IF t.type = V(0) THEN V("task")
    ELSE IF t.type = V(1) THEN V("project")
    ELSE IF t.type = V(2) THEN V("heading")
    ELSE NULL

\* one record of a get_rows result
SelectRow(j) ==
    [uuid |-> j.TASK.uuid,
     title |-> j.TASK.title,
     context |-> Context(j),
     context_uuid |-> ContextUuid(j),
     due |-> Due(j.TASK),
     created |-> Date(j.TASK.creationDate),
     modified |-> Date(j.TASK.userModificationDate),
     started |-> Date(j.TASK.startDate),
     stopped |-> Date(j.TASK.stopDate),
     size |-> V(OpenChildren(j.TASK)),
     type |-> TypeName(j.TASK)]

\* get_rows(sql) with self.filter = flt: SELECT DISTINCT ... WHERE filter sql,
\* where sql is the condition Where and the ORDER BY terms order.  The value
\* is the set of row sequences the query may return.
get_rows(Where, order, flt) ==
    LET kept == {j \in Joined : Holds(SqlAnd(FilterCond(flt, j), Where[j]))}
        rows == {SelectRow(j) : j \in kept}
        Key == [rec \in rows |-> (CHOOSE j \in kept : SelectRow(j) = rec).TASK]
    IN  Orderings(rows, Key, order)

-----------------------------------------------------------------------------
(* The views' conditions                                                   *)

\* (PROJECT.title IS NULL OR PROJECT not trashed) AND
\* (HEADPROJ.title IS NULL OR HEADPROJ not trashed)
ContainersNotTrashed(j) ==
    SqlAnd(SqlOr(SqlIsNull(j.PROJECT.title), IS_NOT_TRASHED(j.PROJECT)),
           SqlOr(SqlIsNull(j.HEADPROJ.title), IS_NOT_TRASHED(j.HEADPROJ)))

\* the stricter container check of get_anytime when no filter is set
ContainersAnytime(j) ==
    SqlAnd(SqlOr(SqlIsNull(j.PROJECT.title),
                 SqlAll(<<IS_ANYTIME(j.PROJECT),
                          IS_NOT_SCHEDULED(j.PROJECT),
                          IS_NOT_TRASHED(j.PROJECT)>>)),
           SqlOr(SqlIsNull(j.HEADPROJ.title),
                 SqlAll(<<IS_ANYTIME(j.HEADPROJ),
                          IS_NOT_SCHEDULED(j.HEADPROJ),
                          IS_NOT_TRASHED(j.HEADPROJ)>>)))

WhereInbox(j, mode) ==
    SqlAll(<<IS_NOT_TRASHED(j.TASK), IsTask(j.TASK, mode), IS_OPEN(j.TASK),
             IS_INBOX(j.TASK)>>)

WhereToday(j, mode) ==
    SqlAll(<<IS_NOT_TRASHED(j.TASK), IsTask(j.TASK, mode), IS_OPEN(j.TASK),
             SqlOr(IS_ANYTIME(j.TASK),
                   SqlAnd(IS_SOMEDAY(j.TASK),
                          SqlLe(j.TASK.startDate, V(NOW)))),
             IS_SCHEDULED(j.TASK),
             ContainersNotTrashed(j)>>)

WhereSomeday(j, mode) ==
    SqlAll(<<IS_NOT_TRASHED(j.TASK), IsTask(j.TASK, mode), IS_OPEN(j.TASK),
             IS_SOMEDAY(j.TASK), IS_NOT_SCHEDULED(j.TASK),
             IS_NOT_RECURRING(j.TASK),
             ContainersNotTrashed(j)>>)

WhereUpcoming(j, mode) ==
    SqlAll(<<IS_NOT_TRASHED(j.TASK), IsTask(j.TASK, mode), IS_OPEN(j.TASK),
             IS_SOMEDAY(j.TASK), IS_SCHEDULED(j.TASK),
             IS_NOT_RECURRING(j.TASK),
             ContainersNotTrashed(j)>>)

\* (SELECT uuid FROM TMTag WHERE title='{tag}'): a scalar subquery, NULL when
\* no tag has the title
TagUuid(tag) ==
    LET named == {g \in TMTag : Holds(SqlEq(g.title, V(tag)))}
    IN  IF named = {} THEN NULL ELSE (CHOOSE g \in named : TRUE).uuid

WhereTag(j, mode, tag) ==
    SqlAll(<<IS_NOT_TRASHED(j.TASK), IsTask(j.TASK, mode), IS_OPEN(j.TASK),
             IS_NOT_RECURRING(j.TASK),
             SqlEq(j.TAGS.tags, TagUuid(tag)),
             ContainersNotTrashed(j)>>)

\* scoped is the truth of "if self.filter:" when get_anytime chose its query
WhereAnytime(j, mode, scoped) ==
    SqlAll(<<IS_NOT_TRASHED(j.TASK), IsTask(j.TASK, mode), IS_OPEN(j.TASK),
             IS_ANYTIME(j.TASK), IS_NOT_SCHEDULED(j.TASK),
             IF scoped THEN ContainersNotTrashed(j)
                       ELSE ContainersAnytime(j)>>)

\* get_completed without its trash check
WhereCompleted_KeepsTrashed(j, mode) ==
    SqlAll(<<IsTask(j.TASK, mode), IS_DONE(j.TASK)>>)

WhereCompleted(j, mode) ==
    SqlAll(<<IS_NOT_TRASHED(j.TASK), IsTask(j.TASK, mode), IS_DONE(j.TASK)>>)

WhereCancelled(j, mode) ==
    SqlAll(<<IS_NOT_TRASHED(j.TASK), IsTask(j.TASK, mode),
             IS_CANCELLED(j.TASK)>>)

WhereTrashed(j, mode) ==
    SqlAll(<<IS_TRASHED(j.TASK), IsTask(j.TASK, mode)>>)

WhereAll(j, mode) ==
    SqlAll(<<IS_NOT_TRASHED(j.TASK), IsTask(j.TASK, mode),
             ContainersNotTrashed(j)>>)

WhereDue(j, mode) ==
    SqlAll(<<IS_NOT_TRASHED(j.TASK), IsTask(j.TASK, mode), IS_OPEN(j.TASK),
             IS_DUE(j.TASK),
             ContainersNotTrashed(j)>>)

WhereLint(j, mode) ==
    SqlAll(<<IS_NOT_TRASHED(j.TASK), IS_OPEN(j.TASK), IsTask(j.TASK, mode),
             SqlOr(IS_SOMEDAY(j.TASK), IS_ANYTIME(j.TASK)),
             SqlIsNull(j.TASK.project),
             SqlIsNull(j.TASK.area),
             SqlIsNull(j.TASK.actionGroup)>>)

\* the HAVING subquery without its recurrence branch
ActiveChildren_NoRecurrence(t) ==
    Cardinality({c \in TMTask :
        /\ c.uuid # NULL
        /\ Holds(SqlAll(<<SqlEq(c.project, t.uuid),
                          IS_NOT_TRASHED(c),
                          IS_OPEN(c),
                          SqlOr(IS_ANYTIME(c), IS_SCHEDULED(c))>>))})

\* the HAVING subquery of get_empty_projects: the project's open, non-trashed
\* children that are anytime, scheduled, or actively recurring
ActiveChildren(t) ==
    Cardinality({c \in TMTask :
        /\ c.uuid # NULL
        /\ Holds(SqlAll(<<SqlEq(c.project, t.uuid),
                          IS_NOT_TRASHED(c),
                          IS_OPEN(c),
                          SqlOr(IS_ANYTIME(c),
                                SqlOr(IS_SCHEDULED(c),
                                      SqlAll(<<IS_RECURRING(c),
                                               RECURRING_IS_NOT_PAUSED(c),
                                               RECURRING_HAS_NEXT_STARTDATE(c)>>)))>>))})

\* GROUP BY TASK.uuid HAVING (...) = 0: the joined rows of one uuid differ
\* only in TAGS and TAG, which are not selected
WhereEmptyProjects(j) ==
    SqlAll(<<IS_NOT_TRASHED(j.TASK), IS_OPEN(j.TASK), IS_PROJECT(j.TASK),
             IS_ANYTIME(j.TASK),
             Bool(ActiveChildren(j.TASK) = 0)>>)

-----------------------------------------------------------------------------
(* The view functions: each is the set of row sequences it may return     *)
(* when self.filter = flt and self.IS_TASK = mode                          *)

OrderDueToday == <<Desc("dueDate"), Asc("todayIndex")>>

get_inbox(flt, mode) ==
    get_rows([j \in Joined |-> WhereInbox(j, mode)], OrderDueToday, flt)

get_today(flt, mode) ==
    get_rows([j \in Joined |-> WhereToday(j, mode)], OrderDueToday, flt)

get_someday(flt, mode) ==
    get_rows([j \in Joined |-> WhereSomeday(j, mode)],
             <<Desc("dueDate"), Desc("creationDate")>>, flt)

get_upcoming(flt, mode) ==
    get_rows([j \in Joined |-> WhereUpcoming(j, mode)],
             <<Asc("startDate"), Asc("todayIndex")>>, flt)

get_tag(tag, flt, mode) ==
    get_rows([j \in Joined |-> WhereTag(j, mode, tag)], OrderDueToday, flt)

get_waiting(flt, mode) == get_tag(tag_waiting, flt, mode)

get_mit(flt, mode) == get_tag(tag_mit, flt, mode)

\* scoped is self.filter as read by "if self.filter:", flt is self.filter as
\* read by get_rows; a single-threaded caller reads the same value twice
get_anytime_query(scoped, flt, mode) ==
    get_rows([j \in Joined |-> WhereAnytime(j, mode, FilterIsSet(scoped))],
             OrderDueToday, flt)

get_anytime(flt, mode) == get_anytime_query(flt, flt, mode)

get_completed(flt, mode) ==
    get_rows([j \in Joined |-> WhereCompleted(j, mode)], <<Asc("stopDate")>>, flt)

get_cancelled(flt, mode) ==
    get_rows([j \in Joined |-> WhereCancelled(j, mode)], <<Asc("stopDate")>>, flt)

get_trashed(flt, mode) ==
    get_rows([j \in Joined |-> WhereTrashed(j, mode)], <<Asc("stopDate")>>, flt)

get_all(flt, mode) ==
    get_rows([j \in Joined |-> WhereAll(j, mode)], <<>>, flt)

get_due(flt, mode) ==
    get_rows([j \in Joined |-> WhereDue(j, mode)], <<Asc("dueDate")>>, flt)

get_lint(flt, mode) ==
    get_rows([j \in Joined |-> WhereLint(j, mode)], <<>>, flt)

get_empty_projects(flt) ==
    get_rows([j \in Joined |-> WhereEmptyProjects(j)], <<>>, flt)

\* result.extend(...) three times: a concatenation, duplicates kept
get_cleanup(flt, mode) ==
    {a \o b \o c : a \in get_lint(flt, mode),
                   b \in get_empty_projects(flt),
                   c \in get_tag(tag_cleanup, flt, mode)}

\* the views that query TMTask or TMArea directly, not through get_rows
get_projects ==
    LET kept == {t \in TMTask :
                    Holds(SqlAll(<<IS_NOT_TRASHED(t), IS_PROJECT(t),
                                   IS_OPEN(t)>>))}
        Row == [t \in kept |->
                   [uuid |-> t.uuid, title |-> t.title, context |-> NULL]]
    IN  {MapSeq(s, Row) : s \in Orderings(kept, [t \in kept |-> t],
                                          <<AscText("title")>>)}

get_areas ==
    {MapSeq(s, [a \in TMArea |-> [uuid |-> a.uuid, title |-> a.title]])
        : s \in Orderings(TMArea, [a \in TMArea |-> a], <<AscText("title")>>)}

get_largest_projects ==
    LET kept == {t \in TMTask :
                    Holds(SqlAll(<<IS_NOT_TRASHED(t), IS_OPEN(t),
                                   IS_PROJECT(t)>>))}
        rows == {[uuid |-> t.uuid, title |-> t.title,
                  created |-> t.creationDate,
                  modified |-> t.userModificationDate,
                  tasks |-> V(OpenChildren(t))] : t \in kept}
    IN  Orderings(rows, [r \in rows |-> r], <<Desc("tasks")>>)

-----------------------------------------------------------------------------
(* The activity aggregators                                                *)

\* one LEFT JOINed subquery of get_daystats on calendar day d:
\* SELECT COUNT(uuid), date(column) AS DAY ... WHERE DAY NOT NULL AND cond
\* GROUP BY DAY.  A day without any such row has no group: the count is NULL.
DayCount(column, Cond, d) ==
    LET group == {t \in TMTask : Date(t[column]) = V(d) /\ Holds(Cond[t])}
    IN  IF group = {} THEN NULL
        ELSE V(Cardinality({t \in group : t.uuid # NULL}))

\* the calendar day of "now"
Today == NOW \div SecondsPerDay

\* date(julianday("now", "-{days} days"), "+" || x || " days")
SeriesDate(x) == Today - days + x

get_daystats(mode) ==
    { [x \in 1..days |->
        LET d == SeriesDate(x - 1)
        IN  [date |-> V(d),
             created |-> DayCount("creationDate",
                            [t \in TMTask |-> IsTask(t, mode)], d),
             completed |-> DayCount("stopDate",
                            [t \in TMTask |-> SqlAnd(IS_DONE(t), IsTask(t, mode))], d),
             cancelled |-> DayCount("stopDate",
                            [t \in TMTask |-> SqlAnd(IS_CANCELLED(t), IsTask(t, mode))], d),
             trashed |-> DayCount("userModificationDate",
                            [t \in TMTask |-> SqlAnd(IS_TRASHED(t), IsTask(t, mode))], d)]] }

\* the decimal digits, and text <-> integer as printf("%d", text) and
\* SUM(text) convert: the value of the longest prefix of digits
Digits == <<"0", "1", "2", "3", "4", "5", "6", "7", "8", "9">>
IsDigit(ch) == \E i \in DOMAIN Digits : Digits[i] = ch
DigitValue(ch) == (CHOOSE i \in DOMAIN Digits : Digits[i] = ch) - 1

RECURSIVE AtoiFrom(_, _)
AtoiFrom(acc, text) ==
    IF text = <<>> \/ ~IsDigit(Head(text)) THEN acc
    ELSE AtoiFrom(acc * 10 + DigitValue(Head(text)), Tail(text))

Atoi(text) == AtoiFrom(0, text)

RECURSIVE Itoa(_)
Itoa(n) ==
    IF n < 10 THEN <<Digits[n + 1]>>
    ELSE Itoa(n \div 10) \o <<Digits[(n % 10) + 1]>>

\* printf("%d", TAG.title) = TAG.title
IsIntegerText(title) ==
    IF title = NULL THEN NULL ELSE Bool(Itoa(Atoi(Val(title))) = Val(title))

RECURSIVE SumMinutes(_)
SumMinutes(js) ==
    IF js = {} THEN 0
    ELSE LET j == CHOOSE x \in js : TRUE
         IN  Atoi(Val(j.TAG.title)) + SumMinutes(js \ {j})

get_minutes_today(mode) ==
    LET kept == {j \in Joined :
                    Holds(SqlAll(<<IsIntegerText(j.TAG.title),
                                   IS_NOT_TRASHED(j.TASK),
                                   IsTask(j.TASK, mode),
                                   IS_OPEN(j.TASK),
                                   IS_ANYTIME(j.TASK),
                                   IS_SCHEDULED(j.TASK),
                                   ContainersNotTrashed(j)>>))}
    IN  { <<[minutes |-> IF kept = {} THEN NULL ELSE V(SumMinutes(kept))]>> }

\* a warning of two records
get_not_implemented_Twice ==
    <<[title |-> "not implemented"], [title |-> "not implemented"]>>

get_not_implemented == <<[title |-> "not implemented"]>>

\* Things3.functions: the view registry
functions ==
    {"inbox", "today", "next", "backlog", "upcoming", "waiting", "mit",
     "completed", "cancelled", "trashed", "projects", "areas", "all", "due",
     "lint", "empty", "cleanup", "top-proj", "stats-day", "stats-min-today"}

\* functions[command](self): the row sequences the view may return
View(command, flt, mode) ==
    CASE command = "inbox" -> get_inbox(flt, mode)
      [] command = "today" -> get_today(flt, mode)
      [] command = "next" -> get_anytime(flt, mode)
      [] command = "backlog" -> get_someday(flt, mode)
      [] command = "upcoming" -> get_upcoming(flt, mode)
      [] command = "waiting" -> get_waiting(flt, mode)
      [] command = "mit" -> get_mit(flt, mode)
      [] command = "completed" -> get_completed(flt, mode)
      [] command = "cancelled" -> get_cancelled(flt, mode)
      [] command = "trashed" -> get_trashed(flt, mode)
      [] command = "projects" -> get_projects
      [] command = "areas" -> get_areas
      [] command = "all" -> get_all(flt, mode)
      [] command = "due" -> get_due(flt, mode)
      [] command = "lint" -> get_lint(flt, mode)
      [] command = "empty" -> get_empty_projects(flt)
      [] command = "cleanup" -> get_cleanup(flt, mode)
      [] command = "top-proj" -> get_largest_projects
      [] command = "stats-day" -> get_daystats(mode)
      [] command = "stats-min-today" -> get_minutes_today(mode)

\* the number of execute_query calls the view makes
Queries(command) == IF command = "cleanup" THEN 3 ELSE 1

-----------------------------------------------------------------------------
(* Store contents                                                          *)

Day(n) == n * SecondsPerDay

\* a TMTask row with the given uuid, title and type; open, not trashed,
\* anytime, unscheduled, not due, not recurring, in no container
Row(uuid, title, type) ==
    [uuid |-> V(uuid), title |-> V(title), type |-> V(type),
     status |-> V(STATUS_OPEN), trashed |-> V(0), start |-> V(START_ANYTIME),
     startDate |-> NULL, dueDate |-> NULL, stopDate |-> NULL,
     creationDate |-> V(Day(390) + 60),
     userModificationDate |-> V(Day(395) + 60),
     todayIndex |-> V(0), recurrenceRule |-> NULL,
     instanceCreationPaused |-> V(0), nextInstanceStartDate |-> NULL,
     project |-> NULL, area |-> NULL, actionGroup |-> NULL]

\* a row is stopped when it is no longer open
Status(r, status) ==
    [r EXCEPT !.status = V(status),
              !.stopDate = IF status = STATUS_OPEN THEN NULL
                           ELSE V(Day(398) + 60)]

\* recurrence: "none", "active" (rule, not paused, next instance known) or
\* "paused" (rule, paused, no next instance)
Recurrence(r, kind) ==
    IF kind = "none" THEN r
    ELSE [r EXCEPT !.recurrenceRule = V("rule"),
                   !.instanceCreationPaused = V(IF kind = "paused" THEN 1 ELSE 0),
                   !.nextInstanceStartDate = IF kind = "paused" THEN NULL
                                             ELSE V(Day(410))]

Areas ==
    {[uuid |-> V("a1"), title |-> V(<<"W", "o", "r", "k">>)],
     [uuid |-> V("a2"), title |-> V(<<"H", "o", "m", "e">>)]}

Tags ==
    {[uuid |-> V("g1"), title |-> V(tag_waiting)],
     [uuid |-> V("g2"), title |-> V(tag_mit)],
     [uuid |-> V("g3"), title |-> V(tag_cleanup)],
     [uuid |-> V("g4"), title |-> V(<<"3", "0">>)]}

TagUuids == {"g1", "g2", "g3", "g4"}

Link(task, tag) == [tasks |-> V(task), tags |-> V(tag)]

StartValues == {START_INBOX, START_ANYTIME, START_SOMEDAY}
StatusValues == {STATUS_OPEN, STATUS_CANCELLED, STATUS_DONE}
TypeValues == {MODE_TASK, MODE_PROJECT, TYPE_HEADING}
\* unset, in the past, in the future
Dates == {NULL, V(Day(399)), V(Day(405))}

P1 == [Row("p1", <<"P", "1">>, MODE_PROJECT) EXCEPT !.area = V("a2")]
P2 == [Row("p2", <<"P", "2">>, MODE_PROJECT) EXCEPT !.todayIndex = V(1)]
H1 == [Row("h1", <<"H", "1">>, TYPE_HEADING) EXCEPT !.project = V("p1")]

\* where a task may sit: nowhere, in a project, under a heading, in an area,
\* or with all three references set
Placements == {"none", "project", "heading", "area", "all"}

Place(r, where) ==
    [r EXCEPT !.project = IF where \in {"project", "all"} THEN V("p1") ELSE NULL,
              !.actionGroup = IF where \in {"heading", "all"} THEN V("h1") ELSE NULL,
              !.area = IF where \in {"area", "all"} THEN V("a1") ELSE NULL]

\* schedules of a row: (start, startDate)
Schedules ==
    ((StartValues \X {NULL, V(Day(399))}) \cup {<<START_SOMEDAY, V(Day(405))>>})

\* (where a task sits, the tag it carries or "")
PlacedTags ==
    (Placements \X {""}) \cup ({"none"} \X TagUuids) \cup {<<"project", "g1">>}

\* Family 1: one task whose own columns vary, beside an open project and a
\* heading of that project
TaskStores ==
    { [tasks |-> {P1, H1,
                  Place(Recurrence(Status(
                      [Row("t1", <<"T", "1">>, MODE_TASK) EXCEPT
                          !.trashed = V(trashed), !.start = V(sched[1]),
                          !.startDate = sched[2], !.dueDate = due[1]],
                      status), due[2]), placed[1])},
       links |-> IF placed[2] = "" THEN {} ELSE {Link("t1", placed[2])}]
      : trashed \in {0, 1}, sched \in Schedules, status \in StatusValues,
        due \in {<<NULL, "none">>, <<V(Day(401)), "none">>,
                 <<V(Day(401)), "active">>},
        placed \in PlacedTags }

\* Family 2: tasks in a project, under a heading and in an area, whose
\* project and heading vary in title, trash and schedule
ContainerStores ==
    { [tasks |-> {[P1 EXCEPT !.title = ptitle, !.trashed = V(ptrashed),
                             !.start = V(psched[1]), !.startDate = psched[2]],
                  [H1 EXCEPT !.title = htitle, !.project = hproject],
                  [Row("t1", <<"T", "1">>, MODE_TASK) EXCEPT
                      !.project = V("p1"), !.startDate = startDate,
                      !.dueDate = V(Day(402))],
                  [Row("t2", <<"T", "2">>, MODE_TASK) EXCEPT
                      !.actionGroup = V("h1"), !.startDate = startDate,
                      !.todayIndex = V(2)],
                  [Row("t3", <<"T", "3">>, MODE_TASK) EXCEPT
                      !.area = V("a1"), !.project = V("p1"),
                      !.actionGroup = V("h1"), !.startDate = startDate]},
       links |-> {Link("t1", "g1"), Link("t1", "g4"), Link("t2", "g3")}]
      : ptitle \in {NULL, V(<<"P", "1">>)}, ptrashed \in {0, 1},
        psched \in {<<START_ANYTIME, NULL>>, <<START_SOMEDAY, NULL>>,
                    <<START_ANYTIME, V(Day(399))>>},
        htitle \in {NULL, V(<<"H", "1">>)}, hproject \in {NULL, V("p1")},
        startDate \in {NULL, V(Day(399))} }

\* the project p1 of family 3: (status, trashed, start)
ProjectStates ==
    {<<STATUS_OPEN, 0, START_ANYTIME>>, <<STATUS_OPEN, 0, START_SOMEDAY>>,
     <<STATUS_DONE, 0, START_ANYTIME>>, <<STATUS_OPEN, 1, START_ANYTIME>>}

\* a child's (start, startDate, recurrence)
ChildSchedules ==
    {<<START_INBOX, NULL, "none">>, <<START_ANYTIME, NULL, "none">>,
     <<START_SOMEDAY, NULL, "none">>, <<START_SOMEDAY, V(Day(405)), "none">>,
     <<START_SOMEDAY, NULL, "active">>, <<START_SOMEDAY, NULL, "paused">>}

\* Family 3: two projects and their children; one child of p1 varies in
\* kind, status, trash, schedule and recurrence
ChildStores ==
    { [tasks |-> {Status([P1 EXCEPT !.trashed = V(pstate[2]),
                                    !.start = V(pstate[3])], pstate[1]),
                  P2,
                  [Row("k1", <<"k", "1">>, MODE_TASK) EXCEPT !.project = V("p2")],
                  Recurrence(Status(
                      [Row("c1", <<"C", "1">>, type) EXCEPT
                          !.project = V("p1"), !.trashed = V(trashed),
                          !.start = V(sched[1]), !.startDate = sched[2]],
                      status), sched[3])}
                 \cup
                 (IF second
                  THEN {[Row("c2", <<"C", "2">>, MODE_TASK) EXCEPT
                            !.project = V("p1"), !.start = V(START_SOMEDAY)]}
                  ELSE {}),
       links |-> {}]
      : pstate \in ProjectStates, type \in TypeValues, trashed \in {0, 1},
        sched \in ChildSchedules, status \in {STATUS_OPEN, STATUS_DONE},
        second \in BOOLEAN }

Stores == TaskStores \cup ContainerStores \cup ChildStores

\* the stores whose file may also be one sqlite cannot open or read
UnreadableStores ==
    {s \in ContainerStores :
        \A t \in s.tasks : t.title # NULL /\ t.trashed = V(0)}

-----------------------------------------------------------------------------
(* State                                                                   *)

\* what a handler gives back: the HTTP status, the rows of the JSON body,
\* how many queries it ran against the store, the exception it raised
Response(handler, command, status, data, queries, error) ==
    [handler |-> handler, command |-> command, status |-> status,
     data |-> data, queries |-> queries, error |-> error]

NoResponse == Response("", "", 0, <<>>, 0, "")

\* sys.exit(2) in execute_query
SystemExit == [code |-> EXIT_CODE, raisedIn |-> "execute_query"]

\* anonymize_string(string): None stays None; otherwise shuffle() leaves the
\* characters in any order
anonymize_string(string) ==
    IF string = NULL THEN {NULL}
    ELSE {V([i \in DOMAIN Val(string) |-> Val(string)[p[i]]])
            : p \in Perms(DOMAIN Val(string))}

\* task['title'] = ...; task['context'] = ... on one row that has both keys
anonymize_task(task) ==
    {[task EXCEPT !.title = title, !.context = context]
        : title \in anonymize_string(task.title),
          context \in anonymize_string(task.context)}

RECURSIVE anonymize_each(_)
anonymize_each(tasks) ==
    IF tasks = <<>> THEN {<<>>}
    ELSE {<<task>> \o rest : task \in anonymize_task(Head(tasks)),
                             rest \in anonymize_each(Tail(tasks))}

\* what execute_query gives back: the rows, or the exception that left it
Fetched(tasks) == [error |-> "", tasks |-> tasks]
Raised(error) == [error |-> error, tasks |-> <<>>]

\* anonymize_tasks(tasks): with anonymize off the rows as fetched; with it on
\* every row's title and context scrambled, and KeyError at the first row
\* that has no 'title' or no 'context' key
anonymize_tasks(tasks) ==
    IF ~anonymize THEN {Fetched(tasks)}
    ELSE IF \E i \in DOMAIN tasks :
                ~({"title", "context"} \subseteq DOMAIN tasks[i])
    THEN {Raised("KeyError")}
    ELSE {Fetched(rows) : rows \in anonymize_each(tasks)}

\* execute_query on a readable store, for a query that fetches tasks.  The
\* three results get_cleanup concatenates come from get_rows, whose rows have
\* both keys: scrambling each result and scrambling their concatenation give
\* the same rows.
execute_query(tasks) == anonymize_tasks(tasks)

Init ==
    /\ \E s \in Stores :
         /\ TMTask = s.tasks
         /\ TMTaskTag = s.links
         /\ database \in (IF s \in UnreadableStores THEN {"ok", "unreadable"}
                           ELSE {"ok"})
    /\ TMArea = Areas
    /\ TMTag = Tags
    /\ filter = NoFilter
    /\ IS_TASK = MODE_TASK
    /\ anonymize = FALSE
    /\ response = NoResponse
    /\ exit = NULL
    /\ threads = <<>>

-----------------------------------------------------------------------------
(* The handlers, each taken as a whole (one request at a time)             *)

Commands == functions \cup {"nonexistent"}

\* (mode, uuid) of /api/filter/<mode>/<uuid>
ScopeRequests == {<<"area", "a1">>, <<"project", "p1">>, <<"project", "">>,
                  <<"tag", "a1">>}

\* Things3API.api(command)
api(command) ==
    /\ exit = NULL
    /\ response = NoResponse
    /\ IF command \in functions
       THEN IF database = "ok"
            THEN /\ \E data \in View(command, filter, IS_TASK) :
                      \E result \in execute_query(data) :
                          response' =
                              IF result.error = ""
                              THEN Response("api", command, 200, result.tasks,
                                            Queries(command), "")
                              ELSE Response("api", command, 500, <<>>,
                                            Queries(command), result.error)
                 /\ exit' = exit
            ELSE /\ exit' = V(SystemExit)
                 /\ response' = response
       ELSE /\ response' = Response("api", command, 404,
                                    get_not_implemented, 0, "")
            /\ exit' = exit
    /\ UNCHANGED <<store, anonymize, filter, IS_TASK, threads>>

\* Things3API.api_toggle: Things3 defines no toggle_mode, the call raises
api_toggle ==
    /\ exit = NULL
    /\ response = NoResponse
    /\ response' = Response("api_toggle", "", 500, <<>>, 0, "AttributeError")
    /\ UNCHANGED <<store, anonymize, filter, IS_TASK, exit, threads>>

\* Things3API.api_filter(mode, uuid)
api_filter(mode, uuid) ==
    /\ exit = NULL
    /\ response = NoResponse
    /\ filter' = IF mode = "project" /\ uuid # "" THEN ProjectFilter(uuid)
                 ELSE IF mode = "area" /\ uuid # "" THEN AreaFilter(uuid)
                 ELSE filter
    /\ response' = Response("api_filter", "", 200, <<>>, 0, "")
    /\ UNCHANGED <<store, anonymize, IS_TASK, exit, threads>>

\* a reset that leaves the filter text in place
api_filter_reset_KeepsFilter ==
    /\ exit = NULL
    /\ response = NoResponse
    /\ response' = Response("api_filter_reset", "", 200, <<>>, 0, "")
    /\ UNCHANGED <<store, anonymize, filter, IS_TASK, exit, threads>>

\* Things3API.api_filter_reset
api_filter_reset ==
    /\ exit = NULL
    /\ response = NoResponse
    /\ filter' = NoFilter
    /\ response' = Response("api_filter_reset", "", 200, <<>>, 0, "")
    /\ UNCHANGED <<store, anonymize, IS_TASK, exit, threads>>

\* Things3.mode_project
mode_project ==
    /\ exit = NULL
    /\ response = NoResponse
    /\ IS_TASK' = MODE_PROJECT
    /\ response' = Response("mode_project", "", 0, <<>>, 0, "")
    /\ UNCHANGED <<store, anonymize, filter, exit, threads>>

\* Things3.mode_task
mode_task ==
    /\ exit = NULL
    /\ response = NoResponse
    /\ IS_TASK' = MODE_TASK
    /\ response' = Response("mode_task", "", 0, <<>>, 0, "")
    /\ UNCHANGED <<store, anonymize, filter, exit, threads>>

\* the caller takes what the handler returned; the next call can start
return ==
    /\ response # NoResponse
    /\ response' = NoResponse
    /\ UNCHANGED <<store, anonymize, filter, IS_TASK, exit, threads>>

Next ==
    \/ \E command \in Commands : api(command)
    \/ api_toggle
    \/ \E r \in ScopeRequests : api_filter(r[1], r[2])
    \/ api_filter_reset
    \/ mode_project
    \/ mode_task
    \/ return

Spec == Init /\ [][Next]_vars

\* Stores for the service started with the anonymize option: one task t1
\* whose title is absent, two characters, or three with one repeated, placed
\* nowhere, in a project, under a heading, in an area or in all three, and
\* tagged Waiting
AnonymizeTitles == {NULL, V(<<"T", "1">>), V(<<"a", "a", "b">>)}

AnonymizeStores ==
    { [tasks |-> {P1, H1,
                  Place([Row("t1", <<"T", "1">>, MODE_TASK) EXCEPT
                            !.title = title, !.dueDate = V(Day(401))], where)},
       links |-> {Link("t1", "g1")}]
      : title \in AnonymizeTitles, where \in Placements }

\* Things3(anonymize=...): the option is taken at construction
InitAnonymize ==
    /\ \E s \in AnonymizeStores :
         /\ TMTask = s.tasks
         /\ TMTaskTag = s.links
    /\ TMArea = Areas
    /\ TMTag = Tags
    /\ database = "ok"
    /\ filter = NoFilter
    /\ IS_TASK = MODE_TASK
    /\ anonymize \in BOOLEAN
    /\ response = NoResponse
    /\ exit = NULL
    /\ threads = <<>>

SpecAnonymize == InitAnonymize /\ [][Next]_vars

-----------------------------------------------------------------------------
(* The threaded server: make_server(HOST, PORT, flask, True) handles each  *)
(* request in a thread of its own, and all threads share one Things3       *)
(* object.  A handler is cut at every read of self.filter: between two     *)
(* reads another thread may run.                                           *)

ThreadIds == {1, 2}

\* a thread that waits for a request
Idle ==
    [pc |-> "idle", command |-> "", chosen |-> NoFilter, reads |-> <<>>,
     status |-> 0, data |-> <<>>, error |-> ""]

\* the store the threads query: a someday project p1 with a heading and a
\* task tagged Cleanup, an empty anytime project p2, and a task nowhere
ThreadStore ==
    [tasks |-> {[P1 EXCEPT !.start = V(START_SOMEDAY)], H1, P2,
                Row("t1", <<"T", "1">>, MODE_TASK),
                [Row("t2", <<"T", "2">>, MODE_TASK) EXCEPT !.project = V("p1")]},
     links |-> {Link("t2", "g3")}]

InitThreads ==
    /\ TMTask = ThreadStore.tasks
    /\ TMTaskTag = ThreadStore.links
    /\ TMArea = Areas
    /\ TMTag = Tags
    /\ database \in {"ok", "unreadable"}
    /\ filter = NoFilter
    /\ IS_TASK = MODE_TASK
    /\ anonymize = FALSE
    /\ response = NoResponse
    /\ exit = NULL
    /\ threads = [t \in ThreadIds |-> Idle]

Finish(th, status, data, error) ==
    [th EXCEPT !.pc = "done", !.status = status, !.data = data,
               !.error = error]

\* the thread's answer to a view request: the rows execute_query gave back,
\* or the failure of the request when it raised
Answer(th, result) ==
    IF result.error = "" THEN Finish(th, 200, result.tasks, "")
    ELSE Finish(th, 500, <<>>, result.error)

\* Things3API.api(command) up to and including its first read of
\* self.filter: an unknown name answers at once; get_anytime reads the filter
\* to choose its query; get_cleanup runs get_lint; every other view runs its
\* one query
thread_api(t, command) ==
    /\ exit = NULL
    /\ threads[t].pc = "idle"
    /\ LET th == [threads[t] EXCEPT !.command = command]
       IN  IF command \notin functions
           THEN /\ threads' = [threads EXCEPT ![t] =
                                  Finish(th, 404, get_not_implemented, "")]
                /\ exit' = exit
           ELSE IF command = "next"
           THEN /\ threads' = [threads EXCEPT ![t] =
                                  [th EXCEPT !.pc = "anytime_get_rows",
                                             !.chosen = filter,
                                             !.reads = <<filter>>]]
                /\ exit' = exit
           ELSE IF database # "ok"
           THEN /\ exit' = V(SystemExit)
                /\ threads' = threads
           ELSE IF command = "cleanup"
           THEN /\ \E a \in get_lint(filter, IS_TASK) :
                     \E result \in execute_query(a) :
                         threads' = [threads EXCEPT ![t] =
                                        [th EXCEPT !.pc = "cleanup_empty",
                                                   !.reads = <<filter>>,
                                                   !.data = result.tasks]]
                /\ exit' = exit
           ELSE /\ \E data \in View(command, filter, IS_TASK) :
                     \E result \in execute_query(data) :
                         threads' = [threads EXCEPT ![t] =
                                        [Answer(th, result)
                                            EXCEPT !.reads = <<filter>>]]
                /\ exit' = exit
    /\ UNCHANGED <<store, anonymize, filter, IS_TASK, response>>

\* get_anytime's call of get_rows: the filter is read again and spliced into
\* the query chosen before
thread_anytime_get_rows(t) ==
    /\ exit = NULL
    /\ threads[t].pc = "anytime_get_rows"
    /\ IF database = "ok"
       THEN /\ \E data \in get_anytime_query(threads[t].chosen, filter, IS_TASK) :
                 \E result \in execute_query(data) :
                     threads' = [threads EXCEPT ![t] =
                                    [Answer(@, result)
                                        EXCEPT !.reads = Append(@, filter)]]
            /\ exit' = exit
       ELSE /\ exit' = V(SystemExit)
            /\ threads' = threads
    /\ UNCHANGED <<store, anonymize, filter, IS_TASK, response>>

\* get_cleanup's second query: get_empty_projects
thread_cleanup_empty(t) ==
    /\ exit = NULL
    /\ threads[t].pc = "cleanup_empty"
    /\ \E b \in get_empty_projects(filter) :
         \E result \in execute_query(b) :
             threads' = [threads EXCEPT ![t] =
                            [@ EXCEPT !.pc = "cleanup_tag",
                                      !.reads = Append(@, filter),
                                      !.data = @ \o result.tasks]]
    /\ UNCHANGED <<store, anonymize, filter, IS_TASK, response, exit>>

\* get_cleanup's third query: get_tag(tag_cleanup)
thread_cleanup_tag(t) ==
    /\ exit = NULL
    /\ threads[t].pc = "cleanup_tag"
    /\ \E c \in get_tag(tag_cleanup, filter, IS_TASK) :
         \E result \in execute_query(c) :
             threads' = [threads EXCEPT ![t] =
                            [Finish(@, 200, threads[t].data \o result.tasks, "")
                                EXCEPT !.reads = Append(@, filter)]]
    /\ UNCHANGED <<store, anonymize, filter, IS_TASK, response, exit>>

\* Things3API.api_filter(mode, uuid) in thread t
thread_api_filter(t, mode, uuid) ==
    /\ exit = NULL
    /\ threads[t].pc = "idle"
    /\ filter' = IF mode = "project" /\ uuid # "" THEN ProjectFilter(uuid)
                 ELSE IF mode = "area" /\ uuid # "" THEN AreaFilter(uuid)
                 ELSE filter
    /\ threads' = [threads EXCEPT ![t] =
                      Finish([@ EXCEPT !.command = "api_filter"], 200, <<>>, "")]
    /\ UNCHANGED <<store, anonymize, IS_TASK, response, exit>>

\* Things3API.api_filter_reset in thread t
thread_api_filter_reset(t) ==
    /\ exit = NULL
    /\ threads[t].pc = "idle"
    /\ filter' = NoFilter
    /\ threads' = [threads EXCEPT ![t] =
                      Finish([@ EXCEPT !.command = "api_filter_reset"],
                             200, <<>>, "")]
    /\ UNCHANGED <<store, anonymize, IS_TASK, response, exit>>

\* Things3API.api_toggle in thread t: the call of toggle_mode raises
thread_api_toggle(t) ==
    /\ exit = NULL
    /\ threads[t].pc = "idle"
    /\ threads' = [threads EXCEPT ![t] =
                      Finish([@ EXCEPT !.command = "api_toggle"],
                             500, <<>>, "AttributeError")]
    /\ UNCHANGED <<store, anonymize, filter, IS_TASK, response, exit>>

\* the response is sent; the thread takes the next request
thread_return(t) ==
    /\ threads[t].pc = "done"
    /\ threads' = [threads EXCEPT ![t] = Idle]
    /\ UNCHANGED <<store, anonymize, filter, IS_TASK, response, exit>>

NextThreads ==
    \E t \in ThreadIds :
        \/ \E command \in Commands : thread_api(t, command)
        \/ thread_anytime_get_rows(t)
        \/ thread_cleanup_empty(t)
        \/ thread_cleanup_tag(t)
        \/ \E r \in ScopeRequests : thread_api_filter(t, r[1], r[2])
        \/ thread_api_filter_reset(t)
        \/ thread_api_toggle(t)
        \/ thread_return(t)

SpecThreads == InitThreads /\ [][NextThreads]_vars

-----------------------------------------------------------------------------
(* Properties                                                              *)

\* the last handler was api(command) and returned the view's rows
Answered(command) ==
    /\ response.handler = "api"
    /\ response.command = command
    /\ response.status = 200

\* the views that go through get_rows
RowViews ==
    {"inbox", "today", "next", "backlog", "upcoming", "waiting", "mit",
     "completed", "cancelled", "trashed", "all", "due", "lint", "empty",
     "cleanup"}

Returned == Range(response.data)
ReturnedUuids == {rec.uuid : rec \in Returned}

\* the TMTask row a returned record was made from
TaskOf(rec) == CHOOSE t \in TMTask : t.uuid = rec.uuid

TrashedTasks == {t \in TMTask : t.type = V(MODE_TASK) /\ t.trashed = V(1)}

\* C1: in task mode with no scope set, every trashed row of kind task is
\* returned by the trashed view, and by none of inbox, today, next, backlog,
\* upcoming, waiting, mit, completed, cancelled, due, lint, cleanup and all.
C1_TrashedOnlyInTrashed ==
    (/\ response.handler = "api"
     /\ response.status = 200
     /\ filter = NoFilter
     /\ IS_TASK = MODE_TASK)
    => \A t \in TrashedTasks :
         /\ response.command = "trashed" => t.uuid \in ReturnedUuids
         /\ response.command \in
               {"inbox", "today", "next", "backlog", "upcoming", "waiting",
                "mit", "completed", "cancelled", "due", "lint", "cleanup",
                "all"}
            => t.uuid \notin ReturnedUuids

\* the trashed view returned a trashed task that is done, due, tagged
\* Waiting and in no container, so only its trash flag keeps it out of
\* completed, due, waiting and all
C1_Witness ==
    /\ Answered("trashed")
    /\ filter = NoFilter
    /\ IS_TASK = MODE_TASK
    /\ \E t \in TrashedTasks :
         /\ t.uuid \in ReturnedUuids
         /\ t.status = V(STATUS_DONE)
         /\ t.dueDate # NULL
         /\ Link("t1", "g1") \in TMTaskTag

\* C2: every record a get_rows view returns for a row whose area reference
\* resolves to an area A has context = A's title and context_uuid = A's id,
\* whatever project or heading the row also references.
C2_AreaIsContext ==
    (/\ response.handler = "api"
     /\ response.status = 200
     /\ response.command \in RowViews)
    => \A rec \in Returned : \A a \in TMArea :
         TaskOf(rec).area = a.uuid
         => /\ rec.context = a.title
            /\ rec.context_uuid = a.uuid

\* a returned task has an area, a project and a heading, and its context is
\* the area
C2_Witness ==
    /\ response.handler = "api"
    /\ response.command \in RowViews
    /\ \E rec \in Returned :
         /\ TaskOf(rec).area = V("a1")
         /\ TaskOf(rec).project = V("p1")
         /\ TaskOf(rec).actionGroup = V("h1")
         /\ \E p \in TMTask : p.uuid = V("p1") /\ p.title # NULL
         /\ rec.context = V(<<"W", "o", "r", "k">>)
         /\ rec.context_uuid = V("a1")

\* row t is in scope flt: its area is the scoped id, or its project, or its
\* heading's project, is the scoped id
InScope(t, flt) ==
    IF flt.kind = "area" THEN t.area = V(flt.uuid)
    ELSE \/ t.project = V(flt.uuid)
         \/ \E h \in TMTask :
              /\ t.actionGroup = h.uuid
              /\ h.project = V(flt.uuid)

\* C3: under a project scope P the next view returns only rows whose project
\* is P or whose heading's project is P; a reset leaves no scope behind, and
\* with no scope the next view returns what the unscoped query returns on
\* the same store.
C3_ScopeAndReset ==
    /\ (Answered("next") /\ filter.kind = "project")
       => \A rec \in Returned : InScope(TaskOf(rec), filter)
    /\ response.handler = "api_filter_reset" => filter = NoFilter
    /\ (Answered("next") /\ filter = NoFilter)
       => response.data \in get_anytime_query(NoFilter, NoFilter, IS_TASK)

\* under project scope p1 the next view returned a task under a heading of
\* p1 and no task outside p1, though the store holds one
C3_Witness ==
    /\ Answered("next")
    /\ filter = ProjectFilter("p1")
    /\ \E rec \in Returned :
         /\ TaskOf(rec).project = NULL
         /\ TaskOf(rec).actionGroup = V("h1")
    /\ \E rec \in Returned : TaskOf(rec).project = V("p1")

\* C5: dispatching a view name that is not in the registry returns exactly
\* one record, {title: "not implemented"}, raises nothing, runs no query
\* against the store and changes neither the scope nor the mode.
C5_UnknownView ==
    [][(response'.handler = "api" /\ response'.command \notin functions)
       => /\ response'.data = <<[title |-> "not implemented"]>>
          /\ response'.error = ""
          /\ response'.queries = 0
          /\ exit' = exit
          /\ filter' = filter
          /\ IS_TASK' = IS_TASK
          /\ store' = store]_vars

\* an unknown view was dispatched while a scope and project mode were set
\* and the store was unreadable, and the warning came back
C5_Witness ==
    /\ response.handler = "api"
    /\ response.command = "nonexistent"
    /\ Len(response.data) = 1
    /\ database = "unreadable"
    /\ filter # NoFilter
    /\ IS_TASK = MODE_PROJECT
    /\ exit = NULL

OpenRowsOf(uuid) ==
    {c \in TMTask :
        c.project = uuid /\ c.trashed = V(0) /\ c.status = V(STATUS_OPEN)}

\* the counts of a top-proj result never rise from one row to the next
CountsDescend(data) ==
    \A i, k \in DOMAIN data :
        i < k => Val(data[i].tasks) >= Val(data[k].tasks)

\* every top-proj row is an open, non-trashed project
OpenProjectsOnly ==
    \A rec \in Returned :
        LET p == TaskOf(rec)
        IN  p.type = V(MODE_PROJECT) /\ p.trashed = V(0)
            /\ p.status = V(STATUS_OPEN)

\* C9 as claimed: the count of every project top-proj returns is the number
\* of non-trashed, open rows that are not of kind project and reference the
\* project, and the rows come by count, descending.
C9_CountsNonProjectChildren ==
    Answered("top-proj")
    => /\ OpenProjectsOnly
       /\ \A rec \in Returned :
            Val(rec.tasks) =
                Cardinality({c \in OpenRowsOf(rec.uuid) :
                                c.type # V(MODE_PROJECT)})
       /\ CountsDescend(response.data)

\* C9 as amended: the count of every project top-proj returns is the number
\* of non-trashed, open rows of any kind that reference the project, and
\* the rows come by count, descending.
C9_CountsOpenChildren ==
    Answered("top-proj")
    => /\ OpenProjectsOnly
       /\ \A rec \in Returned :
            Val(rec.tasks) = Cardinality(OpenRowsOf(rec.uuid))
       /\ CountsDescend(response.data)

\* top-proj returned p1 with two children ahead of p2 with one, while p1
\* also has a heading as a counted child
C9_Witness ==
    /\ Answered("top-proj")
    /\ Len(response.data) = 2
    /\ response.data[1].uuid = V("p1")
    /\ response.data[1].tasks = V(2)
    /\ response.data[2].tasks = V(1)
    /\ \E c \in OpenRowsOf(V("p1")) : c.type = V(TYPE_HEADING)

\* the open, non-trashed anytime projects
OpenAnytimeProjects ==
    {p \in TMTask :
        /\ p.type = V(MODE_PROJECT)
        /\ p.trashed = V(0)
        /\ p.status = V(STATUS_OPEN)
        /\ p.start = V(START_ANYTIME)}

\* the ids top-proj reports with count 0, among the open anytime projects
ZeroCountProjects ==
    {p.uuid : p \in {q \in OpenAnytimeProjects :
                        \E data \in get_largest_projects :
                            \E i \in DOMAIN data :
                                /\ data[i].uuid = q.uuid
                                /\ data[i].tasks = V(0)}}

\* a child keeps its project from being empty: anytime, scheduled, or
\* recurring with instance creation not paused and a next start date
KeepsBusy(c) ==
    \/ c.start = V(START_ANYTIME)
    \/ c.startDate # NULL
    \/ /\ c.recurrenceRule # NULL
       /\ c.instanceCreationPaused = V(0)
       /\ c.nextInstanceStartDate # NULL

\* C10 as claimed: with no scope set, the ids the empty view returns are the
\* ids of the open, non-trashed anytime projects whose top-proj count is 0.
C10_EmptyIsZeroCount ==
    (Answered("empty") /\ filter = NoFilter)
    => ReturnedUuids = ZeroCountProjects

\* C10 as amended: with no scope set, the ids the empty view returns are the
\* ids of the open, non-trashed anytime projects none of whose open,
\* non-trashed children is anytime, scheduled or actively recurring; they
\* include every such project whose top-proj count is 0.
C10_EmptyHasNoBusyChild ==
    (Answered("empty") /\ filter = NoFilter)
    => /\ ReturnedUuids =
            {p.uuid : p \in {q \in OpenAnytimeProjects :
                                \A c \in OpenRowsOf(q.uuid) : ~KeepsBusy(c)}}
       /\ ZeroCountProjects \subseteq ReturnedUuids

\* the empty view returned p1, whose only open children are a paused
\* recurring someday row and an unscheduled someday task
C10_Witness ==
    /\ Answered("empty")
    /\ filter = NoFilter
    /\ V("p1") \in ReturnedUuids
    /\ Cardinality(OpenRowsOf(V("p1"))) = 2
    /\ \E c \in OpenRowsOf(V("p1")) : c.recurrenceRule # NULL

\* C4 as claimed: a toggle completes without error and switches the value
\* the "is a task" predicates compare against (so two toggles restore it).
C4_ToggleSwitchesMode ==
    [][response'.handler = "api_toggle"
       => /\ response'.error = ""
          /\ IS_TASK' # IS_TASK
          /\ IS_TASK' \in {MODE_TASK, MODE_PROJECT}]_vars

\* C6 as claimed: execute_query never ends the process itself.
C6_AdapterDoesNotExit ==
    exit # NULL => Val(exit).raisedIn # "execute_query"

\* C8 as claimed: every read of the scope that one dispatch makes sees the
\* same value, so no dispatch mixes two overlay states.
C8_OneScopePerDispatch ==
    \A t \in ThreadIds :
        \A i, k \in DOMAIN threads[t].reads :
            threads[t].reads[i] = threads[t].reads[k]

\* the calendar days the rows of a stats-day result carry
StatsDates == {Val(rec.date) : rec \in Returned}

\* C11 as claimed: stats-day returns exactly 365 rows whose dates are
\* consecutive calendar days without gap or repeat, and the latest of them is
\* the current day.
C11_WindowEndsToday ==
    Answered("stats-day")
    => /\ Len(response.data) = days
       /\ Cardinality(StatsDates) = days
       /\ \A d \in StatsDates : d <= Today
       /\ \A d \in StatsDates : d = Today \/ d + 1 \in StatsDates
       /\ Today \in StatsDates

\* the four counts of a stats-day row
StatsCounts(rec) == {rec.created, rec.completed, rec.cancelled, rec.trashed}

\* C12 as claimed: each of the four counts of every stats-day row is a
\* number, 0 on a day on which no row has the corresponding timestamp.
C12_CountsAreNumbers ==
    Answered("stats-day")
    => \A rec \in Returned : \A c \in StatsCounts(rec) :
         /\ c # NULL
         /\ Val(c) \in Nat

\* rec is orig with title and context replaced by text that is a permutation
\* of the original characters; an absent value stays absent and every other
\* field is unchanged
IsShuffleOf(a, b) ==
    IF b = NULL THEN a = NULL
    ELSE /\ a # NULL
         /\ Len(Val(a)) = Len(Val(b))
         /\ \A ch \in Range(Val(b)) :
              Cardinality({i \in DOMAIN Val(a) : Val(a)[i] = ch})
                  = Cardinality({i \in DOMAIN Val(b) : Val(b)[i] = ch})

AnonymizedRecord(rec, orig) ==
    /\ DOMAIN rec = DOMAIN orig
    /\ \A f \in DOMAIN orig :
         IF f \in {"title", "context"} THEN IsShuffleOf(rec[f], orig[f])
         ELSE rec[f] = orig[f]

\* C13 as claimed: with anonymize enabled the dispatch of every view of the
\* registry succeeds, and its records are those the view returns with
\* anonymize disabled, with each title and context replaced by a permutation
\* of its characters (absent stays absent) and every other field unchanged.
C13_EveryViewAnonymized ==
    (/\ anonymize
     /\ response.handler = "api"
     /\ response.command \in functions)
    => /\ response.status = 200
       /\ \E data \in View(response.command, filter, IS_TASK) :
            /\ Len(response.data) = Len(data)
            /\ \A i \in DOMAIN data : AnonymizedRecord(response.data[i], data[i])

\* the views whose query requires the containers not to be trashed
ContainerViews ==
    {"today", "backlog", "upcoming", "waiting", "mit", "next", "due", "all"}

\* the project row t references directly
ProjectsOf(t) == {p \in TMTask : t.project = p.uuid}

\* the projects that own the heading row t references
HeadProjectsOf(t) ==
    {p \in TMTask :
        \E h \in TMTask : t.actionGroup = h.uuid /\ h.project = p.uuid}

\* C14 as claimed: no record of today, backlog, upcoming, waiting, mit, next,
\* due or all belongs to a row whose direct project is trashed or whose
\* heading's project is trashed; only a row without such a container passes.
C14_ContainersNotTrashed ==
    (/\ response.handler = "api"
     /\ response.status = 200
     /\ response.command \in ContainerViews)
    => \A rec \in Returned :
         \A p \in ProjectsOf(TaskOf(rec)) \cup HeadProjectsOf(TaskOf(rec)) :
            p.trashed = V(0)

\* the heading rows t references
HeadingsOf(t) == {h \in TMTask : t.actionGroup = h.uuid}

\* row t has a heading, and neither an area nor a project that resolves
UnderHeadingOnly(t) ==
    /\ HeadingsOf(t) # {}
    /\ ProjectsOf(t) = {}
    /\ ~\E a \in TMArea : t.area = a.uuid

\* C15 as claimed: the record of a returned row that has a heading, and
\* neither an area nor a project that resolves, has the heading's title as
\* context and the id of the heading's own project as context_uuid (absent
\* when the heading has no project).
C15_HeadingContext ==
    (/\ response.handler = "api"
     /\ response.status = 200
     /\ response.command \in RowViews)
    => \A rec \in Returned :
         UnderHeadingOnly(TaskOf(rec))
         => \A h \in HeadingsOf(TaskOf(rec)) :
              /\ rec.context = h.title
              /\ rec.context_uuid = h.project

\* row t is what the next view lists: of the kind the mode selects, open,
\* not trashed, anytime and unscheduled
IsNextTask(t) ==
    /\ t.type = V(IS_TASK)
    /\ t.status = V(STATUS_OPEN)
    /\ t.trashed = V(0)
    /\ t.start = V(START_ANYTIME)
    /\ t.startDate = NULL

\* container p passes the check of the next view: not trashed, and with no
\* scope set also anytime and unscheduled
NextContainerOk(p) ==
    /\ p.trashed = V(0)
    /\ filter = NoFilter => (p.start = V(START_ANYTIME) /\ p.startDate = NULL)

\* C16 as claimed: every record of the next view belongs to an open,
\* non-trashed, anytime, unscheduled row whose project and whose heading's
\* project, where present, are non-trashed and, when no scope is set, also
\* anytime and unscheduled.
C16_NextContainers ==
    Answered("next")
    => \A rec \in Returned :
         /\ IsNextTask(TaskOf(rec))
         /\ \A p \in ProjectsOf(TaskOf(rec)) \cup HeadProjectsOf(TaskOf(rec)) :
              NextContainerOk(p)

====
